---------------------------- MODULE Spec2Model ----------------------------
(***************************************************************************)
(* State-machine model of packages/dns-test/src/container.rs: the          *)
(* Container handle over a docker sandbox, the Child background task, the  *)
(* one-time image build in Container::run and the command helpers.         *)
(*                                                                         *)
(* Four specifications share the variables:                                *)
(*   SpecRun  threads executing Container::run (build gate, naming,        *)
(*            launch, address query);                                      *)
(*   Spec     the handles of sandboxes whose Container::run returned Ok    *)
(*            (spawn, Child::wait, Drop for Child, drop of the Container,  *)
(*            Drop for Inner);                                             *)
(*   SpecIO   the command operations on one sandbox (output, stdout,       *)
(*            status, status_ok) with the engine's answers drawn from      *)
(*            small sets;                                                  *)
(*   SpecCp   Container::cp and the reading back of the file with cat.     *)
(***************************************************************************)
EXTENDS Integers, Sequences, FiniteSets, TLC

\* ------------------------------------------------------------------ bounds

\* threads calling Container::run; thread t creates sandbox t
NumThreads == 2
\* Child handles that can be spawned over a run of Spec
MaxChildren == 2
\* longest file contents and longest captured stdout, in bytes
MaxLen == 2

Threads == 1..NumThreads
Sandboxes == Threads
Children == 1..MaxChildren

\* the values of `Implementation` (the profiles)
Implementations == {"unbound", "hickory"}

VARIABLES
    \* --- Container::run
    once,       \* implementation.once(): state of the std::sync::Once per profile
    pc,         \* position of each thread inside Container::run
    prof,       \* the `implementation` argument of each thread's call
    builds,     \* number of `docker build` invocations per profile
    inflight,   \* number of `docker build` commands running per profile
    image,      \* the engine holds a built image for the profile
    failed,     \* a `docker build` of the profile failed
    COUNT,      \* the static COUNT of container_count
    count,      \* the `count` each thread got from container_count (-1: none yet)
    launches,   \* number of `docker run` commands issued by each thread
    started,    \* the `docker run` of thread t succeeded: the engine runs its sandbox
    inspects,   \* number of `docker inspect` commands issued by each thread
    \* --- handles
    container,  \* the Container handle of sandbox s exists (not yet dropped)
    strong,     \* strong count of the Arc<Inner> of sandbox s
    child,      \* the Child handles: state, `inner` option, sandbox
    proc,       \* the OS process behind each Child
    waits,      \* wait_with_output calls applied to each Child's process
    kills,      \* kill calls applied to each Child's process
    rm,         \* `docker rm -f` requests issued per sandbox
    rmcmd,      \* the `docker rm -f` command of sandbox s: none, running, ok, failed, unstarted
    teardown,   \* the thread in Drop for Inner of sandbox s: none, blocked, returned
    killres,    \* what kill returned to the Drop of each Child: none, ok, err
    \* --- command operations on one sandbox
    inner,      \* the Inner of the sandbox the operations are called on
    files,      \* the file at each path inside the sandbox
    last,       \* the last operation: its arguments, the engine's answers, its result
    issued,     \* the engine commands the last operation issued, in order
    addr        \* what the last call of ipv4_addr returned, "none" before the first

runVars == <<once, pc, prof, builds, inflight, image, failed, COUNT, count, launches, started, inspects>>
handleVars == <<container, strong, child, proc, waits, kills, rm, rmcmd, teardown, killres>>
ioVars == <<inner, files, last, issued, addr>>
vars == <<runVars, handleVars, ioVars>>

NoChild == [st |-> "unspawned", inner |-> "None", sb |-> 0]

\* ------------------------------------------------------- bytes and strings

\* '\n' and '\r', the characters try_from strips; 'h' of the test's "hello";
\* 0xFF, a byte no UTF-8 text contains
LF == 10
CR == 13
Ch == 104
BadByte == 255

Bytes == {LF, CR, Ch, BadByte}
SeqsUpTo(S, n) == UNION {[1..k -> S] : k \in 0..n}
\* what a process can write to stdout, and to stderr
RawOut == SeqsUpTo(Bytes, MaxLen)
RawErr == {<<>>, <<Ch>>, <<LF>>, <<Ch, LF, CR>>, <<BadByte>>}
\* the values of a `&str` file_contents
Contents == SeqsUpTo(Bytes \ {BadByte}, MaxLen)

\* String::from_utf8 succeeds
Utf8(b) == \A i \in 1..Len(b) : b[i] # BadByte

\* TrimEnd with a slip: an `if` in place of the `while`: one character is popped
TrimOnce(b) ==
    IF Len(b) > 0 /\ b[Len(b)] \in {LF, CR} THEN SubSeq(b, 1, Len(b) - 1) ELSE b
\* `while s.ends_with(|c| matches!(c, '\n' | '\r')) { s.pop(); }`
RECURSIVE TrimEnd(_)
TrimEnd(b) ==
    IF Len(b) > 0 /\ b[Len(b)] \in {LF, CR} THEN TrimEnd(SubSeq(b, 1, Len(b) - 1)) ELSE b

\* ExitStatus::success
Success(code) == code = 0

\* the path of the tests and the commands run in the sandbox
Path == "/tmp/somefile"
Argvs == {<<"true">>, <<"cat", Path>>}

\* what the engine answers to one command: it could not be started, or it
\* ran and left an exit code and its two streams
NotSpawned == [spawned |-> FALSE, code |-> 0, stdout |-> <<>>, stderr |-> <<>>]
Exited(code, out, err) == [spawned |-> TRUE, code |-> code, stdout |-> out, stderr |-> err]
Answers == {NotSpawned} \cup {Exited(c, o, e) : c \in {0, 1}, o \in RawOut, e \in RawErr}
\* the answers to a command whose streams are not captured
PlainAnswers == {NotSpawned, Exited(0, <<>>, <<>>), Exited(1, <<>>, <<>>)}

\* Result<T>: Ok with the fields of T that the operation returns, or Err with
\* the message; `diag` is what the operation printed with eprintln!
Ok(code, out, err) ==
    [res |-> "Ok", msg |-> <<>>, status |-> code, stdout |-> out, stderr |-> err, diag |-> <<>>]
Err(msg, diag) ==
    [res |-> "Err", msg |-> msg, status |-> -1, stdout |-> <<>>, stderr |-> <<>>, diag |-> diag]
IoError == Err(<<"io error">>, <<>>)
Utf8Error == Err(<<"invalid utf-8">>, <<>>)
NoAnswer == NotSpawned

NoFile == [present |-> FALSE, data |-> <<>>]
NoOp == [op |-> "none", argv |-> <<>>, contents |-> <<>>, tmp |-> TRUE,
         ans |-> NoAnswer, ans2 |-> NoAnswer, out |-> Ok(-1, <<>>, <<>>)]
Inner0 == [id |-> "0123abcd", name |-> "dns-test-unbound-1-0", ipv4_addr |-> "172.17.0.2"]

\* ----------------------------------------------------------------- handles

\* number of handles of either kind that reference sandbox s
Handles(s) ==
    (IF container[s] THEN 1 ELSE 0)
  + Cardinality({c \in Children : child[c].sb = s /\ child[c].st \in {"live", "waiting"}})

\* Drop for Inner: one `docker rm -f <id>` is issued
DropInner(r, s) == [r EXCEPT ![s] = @ + 1]

\* Drop for Inner, `Command::status()`: the command cannot be started and
\* status returns the error at once, or it is started and status waits for it
RunRm(s) ==
    \/ /\ rmcmd' = [rmcmd EXCEPT ![s] = "unstarted"]
       /\ teardown' = [teardown EXCEPT ![s] = "returned"]
    \/ /\ rmcmd' = [rmcmd EXCEPT ![s] = "running"]
       /\ teardown' = [teardown EXCEPT ![s] = "blocked"]

\* dropping one Arc<Inner>: the count goes down, the last owner drops Inner
ArcDrop(s) ==
    /\ strong' = [strong EXCEPT ![s] = @ - 1]
    /\ rm' = IF strong[s] = 1 THEN DropInner(rm, s) ELSE rm
    /\ IF strong[s] = 1 THEN RunRm(s) ELSE UNCHANGED <<rmcmd, teardown>>

\* Drop for Inner: the removal command ends, with success or not; status
\* returns, `let _ =` discards what it returned and drop returns
rm_exit(s, ok) ==
    /\ rmcmd[s] = "running"
    /\ rmcmd' = [rmcmd EXCEPT ![s] = IF ok THEN "ok" ELSE "failed"]
    /\ teardown' = [teardown EXCEPT ![s] = "returned"]
    /\ UNCHANGED <<container, strong, child, proc, waits, kills, rm, killres, runVars, ioVars>>

\* `inner.kill()`: a running process is killed; on a process that has
\* already exited kill returns Ok or an error, depending on the platform
KillResults(c) == IF proc[c] = "running" THEN {"ok"} ELSE {"ok", "err"}

\* Drop for Child: `if let Some(inner) = self.inner.take()`
HasInner(c) == child[c].inner = "Some"

\* ChildDropGlue with a slip: the result of kill is unwrapped, an error
\* panics inside the drop and the release stops there
ChildDropGlue_kill_unwrap(c, st) ==
    /\ kills' = IF HasInner(c) THEN [kills EXCEPT ![c] = @ + 1] ELSE kills
    /\ proc' = IF HasInner(c) /\ proc[c] = "running"
               THEN [proc EXCEPT ![c] = "killed"] ELSE proc
    /\ \E r \in (IF HasInner(c) THEN KillResults(c) ELSE {killres[c]}) :
          /\ killres' = [killres EXCEPT ![c] = r]
          /\ IF HasInner(c) /\ r = "err"
             THEN /\ child' = [child EXCEPT ![c].st = "panicked", ![c].inner = "None"]
                  /\ UNCHANGED <<strong, rm, rmcmd, teardown>>
             ELSE /\ child' = [child EXCEPT ![c].st = st, ![c].inner = "None"]
                  /\ ArcDrop(child[c].sb)
\* ChildDropGlue with a slip: as std::process::Child does: the process is left alone
ChildDropGlue_no_kill(c, st) ==
    /\ UNCHANGED <<kills, proc, killres>>
    /\ child' = [child EXCEPT ![c].st = st, ![c].inner = "None"]
    /\ ArcDrop(child[c].sb)
\* Drop::drop of Child c followed by the drop of its fields; `st` is the state
\* the handle is left in
ChildDropGlue(c, st) ==
    /\ kills' = IF HasInner(c) THEN [kills EXCEPT ![c] = @ + 1] ELSE kills
    /\ proc' = IF HasInner(c) /\ proc[c] = "running"
               THEN [proc EXCEPT ![c] = "killed"] ELSE proc
    /\ IF HasInner(c)
       THEN \E r \in KillResults(c) : killres' = [killres EXCEPT ![c] = r]
       ELSE UNCHANGED killres
    /\ child' = [child EXCEPT ![c].st = st, ![c].inner = "None"]
    /\ ArcDrop(child[c].sb)

\* spawn with a slip: the Child keeps no Arc<Inner>
spawn_no_clone(s, c) ==
    /\ container[s]
    /\ child[c].st = "unspawned"
    /\ child' = [child EXCEPT ![c] = [st |-> "live", inner |-> "Some", sb |-> s]]
    /\ proc' = [proc EXCEPT ![c] = "running"]
    /\ UNCHANGED <<strong, container, waits, kills, rm, rmcmd, teardown, killres, runVars, ioVars>>
\* Container::spawn, the command could be started
spawn(s, c) ==
    /\ container[s]
    /\ child[c].st = "unspawned"
    /\ child' = [child EXCEPT ![c] = [st |-> "live", inner |-> "Some", sb |-> s]]
    /\ proc' = [proc EXCEPT ![c] = "running"]
    /\ strong' = [strong EXCEPT ![s] = @ + 1]
    /\ UNCHANGED <<container, waits, kills, rm, rmcmd, teardown, killres, runVars, ioVars>>

\* the spawned process ends by itself
ProcExit(c) ==
    /\ proc[c] = "running"
    /\ proc' = [proc EXCEPT ![c] = "exited"]
    /\ UNCHANGED <<container, strong, child, waits, kills, rm, rmcmd, teardown, killres, runVars, ioVars>>

\* wait_begin with a slip: `inner` is borrowed with as_mut() instead of taken
wait_begin_no_take(c) ==
    /\ child[c].st = "live"
    /\ child' = [child EXCEPT ![c].st = "waiting"]
    /\ waits' = [waits EXCEPT ![c] = @ + 1]
    /\ UNCHANGED <<container, strong, proc, kills, rm, rmcmd, teardown, killres, runVars, ioVars>>
\* Child::wait, first half: the handle is moved in, `inner` is taken and
\* wait_with_output starts blocking
wait_begin(c) ==
    /\ child[c].st = "live"
    /\ child' = [child EXCEPT ![c].st = "waiting", ![c].inner = "None"]
    /\ waits' = [waits EXCEPT ![c] = @ + 1]
    /\ UNCHANGED <<container, strong, proc, kills, rm, rmcmd, teardown, killres, runVars, ioVars>>

\* Child::wait, second half: the process has exited, the output is returned
\* and `self` goes out of scope
wait_end(c) ==
    /\ child[c].st = "waiting"
    /\ proc[c] = "exited"
    /\ ChildDropGlue(c, "waited")
    /\ UNCHANGED <<container, waits, runVars, ioVars>>

\* Child::wait, second half: wait_with_output returns an io error, `?` returns
\* and `self` goes out of scope
wait_fails(c) ==
    /\ child[c].st = "waiting"
    /\ ChildDropGlue(c, "waited")
    /\ UNCHANGED <<container, waits, runVars, ioVars>>

\* a Child that was not waited on goes out of scope
drop_child(c) ==
    /\ child[c].st = "live"
    /\ ChildDropGlue(c, "dropped")
    /\ UNCHANGED <<container, waits, runVars, ioVars>>

\* drop_container with a slip: the removal sits in a Drop of Container instead of Inner
drop_container_eager(s) ==
    /\ container[s]
    /\ container' = [container EXCEPT ![s] = FALSE]
    /\ strong' = [strong EXCEPT ![s] = @ - 1]
    /\ rm' = DropInner(rm, s)
    /\ RunRm(s)
    /\ UNCHANGED <<child, proc, waits, kills, killres, runVars, ioVars>>
\* the Container goes out of scope
drop_container(s) ==
    /\ container[s]
    /\ container' = [container EXCEPT ![s] = FALSE]
    /\ ArcDrop(s)
    /\ UNCHANGED <<child, proc, waits, kills, killres, runVars, ioVars>>

\* the state after Container::run returned Ok on every thread
Init ==
    /\ prof = [t \in Threads |-> "unbound"]
    /\ once = [p \in Implementations |->
                 IF \E t \in Threads : prof[t] = p THEN "complete" ELSE "incomplete"]
    /\ pc = [t \in Threads |-> "done"]
    /\ builds = [p \in Implementations |-> IF \E t \in Threads : prof[t] = p THEN 1 ELSE 0]
    /\ inflight = [p \in Implementations |-> 0]
    /\ image = [p \in Implementations |-> \E t \in Threads : prof[t] = p]
    /\ failed = [p \in Implementations |-> FALSE]
    /\ COUNT = NumThreads
    /\ count = [t \in Threads |-> t - 1]
    /\ launches = [t \in Threads |-> 1]
    /\ started = [t \in Threads |-> TRUE]
    /\ inspects = [t \in Threads |-> 1]
    /\ container = [s \in Sandboxes |-> TRUE]
    /\ strong = [s \in Sandboxes |-> 1]
    /\ child = [c \in Children |-> NoChild]
    /\ proc = [c \in Children |-> "none"]
    /\ waits = [c \in Children |-> 0]
    /\ kills = [c \in Children |-> 0]
    /\ rm = [s \in Sandboxes |-> 0]
    /\ rmcmd = [s \in Sandboxes |-> "none"]
    /\ teardown = [s \in Sandboxes |-> "none"]
    /\ killres = [c \in Children |-> "none"]
    /\ inner = Inner0
    /\ files = NoFile
    /\ last = NoOp
    /\ issued = <<>>
    /\ addr = "none"

Next ==
    \/ \E s \in Sandboxes, c \in Children : spawn(s, c)
    \/ \E c \in Children : ProcExit(c)
    \/ \E c \in Children : wait_begin(c)
    \/ \E c \in Children : wait_end(c)
    \/ \E c \in Children : wait_fails(c)
    \/ \E c \in Children : drop_child(c)
    \/ \E s \in Sandboxes : drop_container(s)
    \/ \E s \in Sandboxes, ok \in BOOLEAN : rm_exit(s, ok)

Spec == Init /\ [][Next]_vars

\* ----------------------------------------------------------- Container::run

\* implementation.once(): the gate of a profile is keyed by the profile
Implementation_once(p) == p

\* the `?` on TempDir::new and fs::write: the build directory cannot be made
run_setup_fails(t) ==
    /\ pc[t] = "start"
    /\ pc' = [pc EXCEPT ![t] = "err_setup"]
    /\ UNCHANGED <<once, prof, builds, inflight, image, failed, COUNT, count,
                   launches, started, inspects, handleVars, ioVars>>

\* the build directory and the `docker build` command are prepared; the
\* thread arrives at call_once
run_setup(t) ==
    /\ pc[t] = "start"
    /\ pc' = [pc EXCEPT ![t] = "gate"]
    /\ UNCHANGED <<once, prof, builds, inflight, image, failed, COUNT, count,
                   launches, started, inspects, handleVars, ioVars>>

\* call_once_run with a slip: a check-then-build without the Once: whoever finds no image builds
call_once_unguarded(t) ==
    LET g == Implementation_once(prof[t]) IN
    /\ pc[t] = "gate"
    /\ once[g] \in {"incomplete", "running"}
    /\ once' = [once EXCEPT ![g] = "running"]
    /\ pc' = [pc EXCEPT ![t] = "building"]
    /\ builds' = [builds EXCEPT ![prof[t]] = @ + 1]
    /\ inflight' = [inflight EXCEPT ![prof[t]] = @ + 1]
    /\ UNCHANGED <<prof, image, failed, COUNT, count, launches, started, inspects, handleVars, ioVars>>
\* call_once finds the Once incomplete: this thread runs the closure, which
\* invokes `docker build`
call_once_run(t) ==
    LET g == Implementation_once(prof[t]) IN
    /\ pc[t] = "gate"
    /\ once[g] = "incomplete"
    /\ once' = [once EXCEPT ![g] = "running"]
    /\ pc' = [pc EXCEPT ![t] = "building"]
    /\ builds' = [builds EXCEPT ![prof[t]] = @ + 1]
    /\ inflight' = [inflight EXCEPT ![prof[t]] = @ + 1]
    /\ UNCHANGED <<prof, image, failed, COUNT, count, launches, started, inspects, handleVars, ioVars>>

\* the build exits with success: the closure returns, the Once is complete
build_ok(t) ==
    LET g == Implementation_once(prof[t]) IN
    /\ pc[t] = "building"
    /\ image' = [image EXCEPT ![prof[t]] = TRUE]
    /\ inflight' = [inflight EXCEPT ![prof[t]] = @ - 1]
    /\ once' = [once EXCEPT ![g] = "complete"]
    /\ pc' = [pc EXCEPT ![t] = "built"]
    /\ UNCHANGED <<prof, builds, failed, COUNT, count, launches, started, inspects, handleVars, ioVars>>

\* build_fails with a slip: the exit status of the build is not asserted
build_fails_swallowed(t) ==
    LET g == Implementation_once(prof[t]) IN
    /\ pc[t] = "building"
    /\ failed' = [failed EXCEPT ![prof[t]] = TRUE]
    /\ inflight' = [inflight EXCEPT ![prof[t]] = @ - 1]
    /\ once' = [once EXCEPT ![g] = "complete"]
    /\ pc' = [pc EXCEPT ![t] = "built"]
    /\ UNCHANGED <<prof, builds, image, COUNT, count, launches, started, inspects, handleVars, ioVars>>
\* the build cannot be started (unwrap) or exits without success (assert!):
\* the closure panics, the Once is poisoned and the thread unwinds
build_fails(t) ==
    LET g == Implementation_once(prof[t]) IN
    /\ pc[t] = "building"
    /\ failed' = [failed EXCEPT ![prof[t]] = TRUE]
    /\ inflight' = [inflight EXCEPT ![prof[t]] = @ - 1]
    /\ once' = [once EXCEPT ![g] = "poisoned"]
    /\ pc' = [pc EXCEPT ![t] = "panicked"]
    /\ UNCHANGED <<prof, builds, image, COUNT, count, launches, started, inspects, handleVars, ioVars>>

\* call_once_done with a slip: the caller does not block on a running closure
call_once_no_block(t) ==
    LET g == Implementation_once(prof[t]) IN
    /\ pc[t] = "gate"
    /\ once[g] \in {"running", "complete"}
    /\ pc' = [pc EXCEPT ![t] = "built"]
    /\ UNCHANGED <<once, prof, builds, inflight, image, failed, COUNT, count,
                   launches, started, inspects, handleVars, ioVars>>
\* call_once returns without running the closure once the Once is complete;
\* while another thread runs the closure the caller stays blocked
call_once_done(t) ==
    LET g == Implementation_once(prof[t]) IN
    /\ pc[t] = "gate"
    /\ once[g] = "complete"
    /\ pc' = [pc EXCEPT ![t] = "built"]
    /\ UNCHANGED <<once, prof, builds, inflight, image, failed, COUNT, count,
                   launches, started, inspects, handleVars, ioVars>>

\* call_once on a poisoned Once panics
call_once_poisoned(t) ==
    LET g == Implementation_once(prof[t]) IN
    /\ pc[t] = "gate"
    /\ once[g] = "poisoned"
    /\ pc' = [pc EXCEPT ![t] = "panicked"]
    /\ UNCHANGED <<once, prof, builds, inflight, image, failed, COUNT, count,
                   launches, started, inspects, handleVars, ioVars>>

\* container_count with a slip: COUNT.load(Relaxed), the counter is read and
\* not advanced
container_count_load(t) ==
    /\ pc[t] = "built"
    /\ count' = [count EXCEPT ![t] = COUNT]
    /\ pc' = [pc EXCEPT ![t] = "named"]
    /\ UNCHANGED <<once, prof, builds, inflight, image, failed, COUNT, launches, started,
                   inspects, handleVars, ioVars>>
\* container_count: COUNT.fetch_add(1, Relaxed)
container_count(t) ==
    /\ pc[t] = "built"
    /\ count' = [count EXCEPT ![t] = COUNT]
    /\ COUNT' = COUNT + 1
    /\ pc' = [pc EXCEPT ![t] = "named"]
    /\ UNCHANGED <<once, prof, builds, inflight, image, failed, launches, started, inspects,
                   handleVars, ioVars>>

\* checked_output of `docker run`: the command is issued and succeeds
launch_ok(t) ==
    /\ pc[t] = "named"
    /\ launches' = [launches EXCEPT ![t] = @ + 1]
    /\ started' = [started EXCEPT ![t] = TRUE]
    /\ pc' = [pc EXCEPT ![t] = "launched"]
    /\ UNCHANGED <<once, prof, builds, inflight, image, failed, COUNT, count, inspects,
                   handleVars, ioVars>>

\* launch_fails with a slip: the error of the launch is dropped and run goes on
launch_fails_ignored(t) ==
    /\ pc[t] = "named"
    /\ launches' = [launches EXCEPT ![t] = @ + 1]
    /\ pc' = [pc EXCEPT ![t] = "launched"]
    /\ UNCHANGED <<once, prof, builds, inflight, image, failed, COUNT, count, inspects, started,
                   handleVars, ioVars>>
\* checked_output of `docker run`: the command cannot be started or exits
\* without success, `?` returns the error
launch_fails(t) ==
    /\ pc[t] = "named"
    /\ launches' = [launches EXCEPT ![t] = @ + 1]
    /\ pc' = [pc EXCEPT ![t] = "err"]
    /\ UNCHANGED <<once, prof, builds, inflight, image, failed, COUNT, count, inspects, started,
                   handleVars, ioVars>>

\* try_into of the launch output: stdout or stderr is not UTF-8, `?` returns
id_invalid(t) ==
    /\ pc[t] = "launched"
    /\ pc' = [pc EXCEPT ![t] = "err"]
    /\ UNCHANGED <<once, prof, builds, inflight, image, failed, COUNT, count,
                   launches, started, inspects, handleVars, ioVars>>

\* get_ipv4_addr succeeds: Inner is assembled and the Container returned
inspect_ok(t) ==
    /\ pc[t] = "launched"
    /\ inspects' = [inspects EXCEPT ![t] = @ + 1]
    /\ pc' = [pc EXCEPT ![t] = "done"]
    /\ container' = [container EXCEPT ![t] = TRUE]
    /\ strong' = [strong EXCEPT ![t] = 1]
    /\ UNCHANGED <<once, prof, builds, inflight, image, failed, COUNT, count,
                   launches, started, child, proc, waits, kills, rm, rmcmd, teardown, killres, ioVars>>

\* get_ipv4_addr fails (query not started, exit status, UTF-8, parse)
inspect_fails(t) ==
    /\ pc[t] = "launched"
    /\ inspects' = [inspects EXCEPT ![t] = @ + 1]
    /\ pc' = [pc EXCEPT ![t] = "err"]
    /\ UNCHANGED <<once, prof, builds, inflight, image, failed, COUNT, count,
                   launches, started, handleVars, ioVars>>

\* every thread is about to call Container::run with some implementation
RunInit ==
    /\ prof \in [Threads -> Implementations]
    /\ once = [p \in Implementations |-> "incomplete"]
    /\ pc = [t \in Threads |-> "start"]
    /\ builds = [p \in Implementations |-> 0]
    /\ inflight = [p \in Implementations |-> 0]
    /\ image = [p \in Implementations |-> FALSE]
    /\ failed = [p \in Implementations |-> FALSE]
    /\ COUNT = 0
    /\ count = [t \in Threads |-> -1]
    /\ launches = [t \in Threads |-> 0]
    /\ started = [t \in Threads |-> FALSE]
    /\ inspects = [t \in Threads |-> 0]
    /\ container = [s \in Sandboxes |-> FALSE]
    /\ strong = [s \in Sandboxes |-> 0]
    /\ child = [c \in Children |-> NoChild]
    /\ proc = [c \in Children |-> "none"]
    /\ waits = [c \in Children |-> 0]
    /\ kills = [c \in Children |-> 0]
    /\ rm = [s \in Sandboxes |-> 0]
    /\ rmcmd = [s \in Sandboxes |-> "none"]
    /\ teardown = [s \in Sandboxes |-> "none"]
    /\ killres = [c \in Children |-> "none"]
    /\ inner = Inner0
    /\ files = NoFile
    /\ last = NoOp
    /\ issued = <<>>
    /\ addr = "none"

RunNext ==
    \/ \E t \in Threads : run_setup_fails(t)
    \/ \E t \in Threads : run_setup(t)
    \/ \E t \in Threads : call_once_run(t)
    \/ \E t \in Threads : build_ok(t)
    \/ \E t \in Threads : build_fails(t)
    \/ \E t \in Threads : call_once_done(t)
    \/ \E t \in Threads : call_once_poisoned(t)
    \/ \E t \in Threads : container_count(t)
    \/ \E t \in Threads : launch_ok(t)
    \/ \E t \in Threads : launch_fails(t)
    \/ \E t \in Threads : id_invalid(t)
    \/ \E t \in Threads : inspect_ok(t)
    \/ \E t \in Threads : inspect_fails(t)

SpecRun == RunInit /\ [][RunNext]_vars

\* process::id(): one value for every thread of the process
process_id == 1

\* Display of an unsigned integer: its decimal digits, most significant first
RECURSIVE Decimal(_)
Decimal(n) ==
    LET d == <<"0", "1", "2", "3", "4", "5", "6", "7", "8", "9">>[(n % 10) + 1] IN
    IF n < 10 THEN <<d>> ELSE Decimal(n \div 10) \o <<d>>

\* format!("{PACKAGE_NAME}-{implementation}-{pid}-{count}") of the thread
\* that took its count
name(t) ==
    <<"dns-test", "-", prof[t], "-">> \o Decimal(process_id) \o <<"-">> \o Decimal(count[t])

\* the thread consulted the Once of its profile and is past call_once
PastGate(t) == pc[t] \in {"building", "built", "named", "launched", "done", "err", "panicked"}

\* C3: under every interleaving of threads creating sandboxes of a profile the
\* build command of the profile is invoked exactly once, and two builds of
\* one profile are never in flight together.
C3_BuildInvokedOnce ==
    \A p \in Implementations :
        /\ builds[p] <= 1
        /\ inflight[p] <= 1
        /\ (\E t \in Threads : prof[t] = p /\ PastGate(t)) => builds[p] = 1

\* two threads of one profile are both past the gate after a single build
C3_Witness ==
    \E t, u \in Threads :
        /\ t # u /\ prof[t] = prof[u]
        /\ pc[t] \in {"named", "launched", "done"}
        /\ pc[u] \in {"named", "launched", "done"}
        /\ builds[prof[t]] = 1

\* C9: every launch command of a profile's sandbox is issued after the single
\* build of the profile finished with success, for the builder and for every
\* caller that waited on the gate or found it done.
C9_LaunchAfterBuild ==
    \A t \in Threads :
        launches[t] > 0 =>
            /\ image[prof[t]]
            /\ inflight[prof[t]] = 0
            /\ builds[prof[t]] = 1

\* two threads of one profile both launched: the builder and another caller
C9_Witness ==
    \E t, u \in Threads :
        /\ t # u /\ prof[t] = prof[u]
        /\ launches[t] = 1 /\ launches[u] = 1
        /\ image[prof[t]]

\* C10: after a failed build of a profile the builder returns no handle and
\* launches nothing, and no other create of the profile builds again or
\* launches a sandbox.
C10_BuildFailureFatal ==
    \A p \in Implementations :
        failed[p] =>
            /\ builds[p] = 1
            /\ ~image[p]
            /\ \A t \in Threads :
                  prof[t] = p =>
                      /\ launches[t] = 0
                      /\ ~container[t]
                      /\ pc[t] \in {"start", "err_setup", "gate", "panicked"}

\* the build of a profile failed and two creators of it have panicked: the
\* one that built and one that came to the poisoned gate
C10_Witness ==
    \E t, u \in Threads :
        /\ t # u /\ prof[t] = prof[u]
        /\ failed[prof[t]]
        /\ pc[t] = "panicked" /\ pc[u] = "panicked"

\* ------------------------------------------------------ command operations

\* format!("[{}] `{command_and_args:?}` failed", self.inner.name)
\* (the backquotes of the message are written ' here)
FailedMsg(self, argv) == <<"[", self.name, "] '">> \o argv \o <<"' failed">>
\* format!("`{command:?}` failed")
CommandFailedMsg(cmd) == <<"'">> \o cmd \o <<"' failed">>

\* the message names x / holds the words of argv in a row
Names(msg, x) == \E i \in 1..Len(msg) : msg[i] = x
Quotes(msg, argv) ==
    \E i \in 0..(Len(msg) - Len(argv)) : SubSeq(msg, i + 1, i + Len(argv)) = argv

\* try_from with a slip: the loop runs on stdout only
try_from_stdout_only(ans) ==
    IF ~Utf8(ans.stderr) THEN Utf8Error
    ELSE IF ~Utf8(ans.stdout) THEN Utf8Error
    ELSE Ok(ans.code, TrimEnd(ans.stdout), ans.stderr)
\* impl TryFrom<process::Output> for Output
try_from(ans) ==
    IF ~Utf8(ans.stderr) THEN Utf8Error
    ELSE IF ~Utf8(ans.stdout) THEN Utf8Error
    ELSE Ok(ans.code, TrimEnd(ans.stdout), TrimEnd(ans.stderr))

\* checked_output
checked_output(cmd, ans) ==
    IF ~ans.spawned THEN IoError
    ELSE IF Success(ans.code) THEN Ok(ans.code, ans.stdout, ans.stderr)
    ELSE Err(CommandFailedMsg(cmd), <<>>)

\* output with a slip: the exit status is checked as in checked_output
output_checked(self, argv, ans) ==
    IF ~ans.spawned THEN IoError
    ELSE IF ~Success(ans.code) THEN Err(FailedMsg(self, argv), <<>>)
    ELSE try_from(ans)
\* Container::output
output(self, argv, ans) ==
    IF ~ans.spawned THEN IoError ELSE try_from(ans)

\* stdout with a slip: the eprintln! of the two streams is left out
stdout_silent(self, argv, ans) ==
    LET o == output(self, argv, ans) IN
    IF o.res = "Err" THEN o
    ELSE IF Success(o.status) THEN Ok(-1, o.stdout, <<>>)
    ELSE Err(FailedMsg(self, argv), <<>>)
\* stdout with a slip: the exit status is not looked at
stdout_unchecked(self, argv, ans) ==
    LET o == output(self, argv, ans) IN
    IF o.res = "Err" THEN o ELSE Ok(-1, o.stdout, <<>>)
\* Container::stdout
stdout(self, argv, ans) ==
    LET o == output(self, argv, ans) IN
    IF o.res = "Err" THEN o
    ELSE IF Success(o.status) THEN Ok(-1, o.stdout, <<>>)
    ELSE Err(FailedMsg(self, argv), <<o.stdout, o.stderr>>)

\* Container::status
status(self, argv, ans) ==
    IF ~ans.spawned THEN IoError ELSE Ok(ans.code, <<>>, <<>>)

\* Container::status_ok
status_ok(self, argv, ans) ==
    LET st == status(self, argv, ans) IN
    IF st.res = "Err" THEN st
    ELSE IF Success(st.status) THEN Ok(-1, <<>>, <<>>)
    ELSE Err(FailedMsg(self, argv), <<>>)

\* Command::new("docker").args(["exec", "-t", &self.inner.id]).args(command_and_args)
DockerExec(self, argv) == <<"docker", "exec", "-t", self.id>> \o argv
\* Command::new("docker").args(["cp", &src_path, &dest_path])
DockerCp(self) == <<"docker", "cp", "tmpfile", self.id, ":", Path>>
\* the command of cp's second step
Chmod == <<"chmod", "666", Path>>

\* Container::cp: temporary file, checked `docker cp`, then chmod 666
cp(self, tmp, a1, a2) ==
    IF ~tmp THEN IoError
    ELSE LET c == checked_output(DockerCp(self), a1) IN
         IF c.res = "Err" THEN c
         ELSE LET m == status_ok(self, Chmod, a2) IN
              IF m.res = "Err" THEN m ELSE Ok(-1, <<>>, <<>>)

\* cp_issued with a slip: the result of the copy is not looked at before chmod
cp_issued_unchecked(self, tmp, a1) ==
    IF ~tmp THEN <<>> ELSE <<DockerCp(self), DockerExec(self, Chmod)>>
\* Container::cp, the commands it issues: none when the temporary file fails,
\* `docker cp`, and chmod through status_ok once `docker cp` returned Ok
cp_issued(self, tmp, a1) ==
    IF ~tmp THEN <<>>
    ELSE IF checked_output(DockerCp(self), a1).res = "Err" THEN <<DockerCp(self)>>
    ELSE <<DockerCp(self), DockerExec(self, Chmod)>>

\* ipv4_addr with a slip: the engine is asked again
ipv4_addr_requery(self, ans) == [value |-> ans, issued |-> <<<<"docker", "inspect", self.id>>>>]
\* Container::ipv4_addr: the field of Inner, no command
ipv4_addr(self, ans) == [value |-> self.ipv4_addr, issued |-> <<>>]

\* the engine: `docker cp` that exits with success has put the file in place
Copied(tmp, a1) == tmp /\ a1.spawned /\ Success(a1.code)
\* the engine: `cat` writes the bytes of the file, or fails on a missing file;
\* any other command can answer anything
ExecAnswers(argv) ==
    IF argv[1] = "cat"
    THEN {NotSpawned,
          IF files.present THEN Exited(0, files.data, <<>>) ELSE Exited(1, <<>>, <<Ch>>)}
    ELSE Answers
\* the same with the streams not captured
StatusAnswers(argv) ==
    {NotSpawned} \cup {Exited(a.code, <<>>, <<>>) : a \in {b \in ExecAnswers(argv) : b.spawned}}

Called(op, argv, contents, tmp, a1, a2, out) ==
    [op |-> op, argv |-> argv, contents |-> contents, tmp |-> tmp,
     ans |-> a1, ans2 |-> a2, out |-> out]

call_output(argv, ans) ==
    /\ last' = Called("output", argv, <<>>, TRUE, ans, NoAnswer, output(inner, argv, ans))
    /\ issued' = <<DockerExec(inner, argv)>>
    /\ UNCHANGED <<inner, files, addr, runVars, handleVars>>

call_stdout(argv, ans) ==
    /\ last' = Called("stdout", argv, <<>>, TRUE, ans, NoAnswer, stdout(inner, argv, ans))
    /\ issued' = <<DockerExec(inner, argv)>>
    /\ UNCHANGED <<inner, files, addr, runVars, handleVars>>

call_status(argv, ans) ==
    /\ last' = Called("status", argv, <<>>, TRUE, ans, NoAnswer, status(inner, argv, ans))
    /\ issued' = <<DockerExec(inner, argv)>>
    /\ UNCHANGED <<inner, files, addr, runVars, handleVars>>

call_status_ok(argv, ans) ==
    /\ last' = Called("status_ok", argv, <<>>, TRUE, ans, NoAnswer, status_ok(inner, argv, ans))
    /\ issued' = <<DockerExec(inner, argv)>>
    /\ UNCHANGED <<inner, files, addr, runVars, handleVars>>

call_cp(contents, tmp, a1, a2) ==
    /\ last' = Called("cp", <<>>, contents, tmp, a1, a2, cp(inner, tmp, a1, a2))
    /\ files' = IF Copied(tmp, a1) THEN [present |-> TRUE, data |-> contents] ELSE files
    /\ issued' = cp_issued(inner, tmp, a1)
    /\ UNCHANGED <<inner, addr, runVars, handleVars>>

\* the addresses the engine can report for a sandbox
Addrs == {"172.17.0.2", "172.17.0.3"}

\* a call of Container::ipv4_addr; ans is what the engine would answer if asked
call_ipv4_addr(ans) ==
    LET r == ipv4_addr(inner, ans) IN
    /\ addr' = r.value
    /\ issued' = r.issued
    /\ last' = Called("ipv4_addr", <<>>, <<>>, TRUE, NoAnswer, NoAnswer, Ok(-1, <<>>, <<>>))
    /\ UNCHANGED <<inner, files, runVars, handleVars>>

\* the engine's answers to the commands of one cp: nothing is asked after the
\* step that fails
CpRuns ==
    {<<FALSE, NoAnswer, NoAnswer>>}
    \cup {<<TRUE, a1, NoAnswer>> : a1 \in {NotSpawned, Exited(1, <<>>, <<>>)}}
    \cup {<<TRUE, Exited(0, <<>>, <<>>), a2>> : a2 \in PlainAnswers}

\* the sandbox as Container::run returned it
IOInit == Init

IONext ==
    \/ \E argv \in Argvs : \E ans \in ExecAnswers(argv) : call_output(argv, ans)
    \/ \E argv \in Argvs : \E ans \in ExecAnswers(argv) : call_stdout(argv, ans)
    \/ \E argv \in Argvs : \E ans \in StatusAnswers(argv) : call_status(argv, ans)
    \/ \E argv \in Argvs : \E ans \in StatusAnswers(argv) : call_status_ok(argv, ans)

SpecIO == IOInit /\ [][IONext]_vars

\* cp, and the operations running `cat` on the path
Cat == <<"cat", Path>>

CpNext ==
    \/ \E contents \in Contents : \E r \in CpRuns : call_cp(contents, r[1], r[2], r[3])
    \/ \E ans \in ExecAnswers(Cat) : call_output(Cat, ans)
    \/ \E ans \in ExecAnswers(Cat) : call_stdout(Cat, ans)
    \/ \E ans \in StatusAnswers(Cat) : call_status(Cat, ans)
    \/ \E ans \in StatusAnswers(Cat) : call_status_ok(Cat, ans)

SpecCp == IOInit /\ [][CpNext]_vars

\* the life of one sandbox: the handles of sandbox 1, the one `inner` belongs
\* to, and the operations called on its Container while the Container exists
InnerNext ==
    \/ \E c \in Children : spawn(1, c)
    \/ \E c \in Children : ProcExit(c)
    \/ \E c \in Children : wait_begin(c)
    \/ \E c \in Children : wait_end(c)
    \/ \E c \in Children : wait_fails(c)
    \/ \E c \in Children : drop_child(c)
    \/ drop_container(1)
    \/ \E ok \in BOOLEAN : rm_exit(1, ok)
    \/ container[1] /\ \E r \in CpRuns : call_cp(<<Ch, LF>>, r[1], r[2], r[3])
    \/ container[1] /\ \E ans \in ExecAnswers(Cat) : call_output(Cat, ans)
    \/ container[1] /\ \E ans \in ExecAnswers(Cat) : call_stdout(Cat, ans)
    \/ container[1] /\ \E ans \in StatusAnswers(Cat) : call_status(Cat, ans)
    \/ container[1] /\ \E ans \in StatusAnswers(Cat) : call_status_ok(Cat, ans)
    \/ container[1] /\ \E ans \in Addrs : call_ipv4_addr(ans)

SpecInner == IOInit /\ [][InnerNext]_vars

\* ------------------------------------------------------------------ claims

\* C1: a removal request for a sandbox is issued exactly once, at the step
\* that releases the last handle (Container or Child) referencing it, and
\* never a second time.
C1_RemovedOnceAtLastRelease ==
    [][\A s \in Sandboxes :
          /\ rm'[s] <= 1
          /\ rm'[s] - rm[s] = IF Handles(s) > 0 /\ Handles(s)' = 0 THEN 1 ELSE 0]_vars

\* two Child handles were cloned from the Container of s, one waited and one
\* abandoned, every handle is released and the removal was requested
C1_Witness ==
    \E s \in Sandboxes :
        /\ ~container[s]
        /\ rm[s] = 1
        /\ \E c, d \in Children :
              /\ child[c].sb = s /\ child[c].st = "waited"
              /\ child[d].sb = s /\ child[d].st = "dropped"

\* C2: while a handle of either kind references a sandbox, no removal request
\* for it has been issued, whatever the order of the releases.
C2_NoRemovalWhileReferenced ==
    \A s \in Sandboxes : Handles(s) > 0 => rm[s] = 0

\* the Container is dropped, one Child of it is released too, and another
\* Child (spawned from it) still keeps the sandbox
C2_Witness ==
    \E s \in Sandboxes :
        /\ ~container[s]
        /\ rm[s] = 0
        /\ \E c, d \in Children :
              /\ child[c].sb = s /\ child[c].st \in {"live", "waiting"}
              /\ child[d].sb = s /\ child[d].st \in {"waited", "dropped"}

\* C4: the drop of a Child that was never waited on kills its process, and
\* issues no removal request while another handle references the sandbox.
C4_AbandonKillsAndKeepsSandbox ==
    [][\A c \in Children :
          (child[c].st = "live" /\ child'[c].st = "dropped") =>
              /\ kills'[c] = kills[c] + 1
              /\ proc'[c] # "running"
              /\ (proc[c] = "running" => proc'[c] = "killed")
              /\ (Handles(child[c].sb)' > 0 => rm' = rm)]_vars

\* a Child was abandoned while its process ran and the Container lived on
C4_Witness ==
    \E c \in Children :
        /\ child[c].st = "dropped"
        /\ proc[c] = "killed"
        /\ kills[c] = 1
        /\ container[child[c].sb]
        /\ rm[child[c].sb] = 0

\* C5: the process handle of a Child is consumed exactly once: a released
\* Child had exactly one of wait and kill applied, a waited Child is not
\* killed by its drop and is never waited on twice.
C5_ProcessHandleConsumedOnce ==
    \A c \in Children :
        /\ waits[c] + kills[c] <= 1
        /\ child[c].st \in {"waiting", "waited"} => (waits[c] = 1 /\ kills[c] = 0)
        /\ child[c].st = "dropped" => (waits[c] = 0 /\ kills[c] = 1)
        /\ child[c].st \in {"unspawned", "live"} => (waits[c] = 0 /\ kills[c] = 0)

\* one Child completed by wait and dropped afterwards, another abandoned
C5_Witness ==
    \E c, d \in Children :
        /\ child[c].st = "waited" /\ proc[c] = "exited" /\ waits[c] = 1
        /\ child[d].st = "dropped" /\ kills[d] = 1

\* t is c without its trailing run of '\n' and '\r' characters
IsTrimOf(t, c) ==
    \E k \in 0..Len(c) :
        /\ t = SubSeq(c, 1, k)
        /\ (k = 0 \/ c[k] \notin {LF, CR})
        /\ \A i \in (k + 1)..Len(c) : c[i] \in {LF, CR}

\* a successful cp is directly followed by a successful output of `cat`
CpThenCat ==
    /\ last.op = "cp" /\ last.out.res = "Ok"
    /\ last'.op = "output" /\ last'.argv = Cat
    /\ last'.out.res = "Ok" /\ Success(last'.out.status)

\* C6 as stated: cp of any contents followed by output of cat returns a
\* stdout equal to the contents, byte for byte.
C6_RoundTripExact ==
    [][CpThenCat => last'.out.stdout = last.contents]_vars

\* C6 as amended: cp followed by output of cat returns the contents without
\* their trailing '\n' and '\r' characters, hence the contents themselves
\* exactly when they do not end in one of the two.
C6_RoundTripTrimmed ==
    [][CpThenCat =>
          /\ IsTrimOf(last'.out.stdout, last.contents)
          /\ (last'.out.stdout = last.contents
                <=> (last.contents = <<>> \/ last.contents[Len(last.contents)] \notin {LF, CR}))]_vars

\* a file ending in a newline was copied in and cat read back without it
C6_Witness ==
    /\ last.op = "output" /\ last.argv = Cat
    /\ last.out.res = "Ok" /\ Success(last.out.status)
    /\ files.present /\ files.data = <<Ch, LF>>
    /\ last.out.stdout = <<Ch>>

\* the command of the last operation ran and its streams are UTF-8
RanWithText == last.ans.spawned /\ Utf8(last.ans.stdout) /\ Utf8(last.ans.stderr)
\* the error of the last operation names the sandbox and the argv
NamesSandboxAndArgv == Names(last.out.msg, inner.name) /\ Quotes(last.out.msg, last.argv)

\* C7 as stated, for a command that could be started: stdout returns an
\* error exactly when the exit status is not success, the error names the
\* sandbox and the argv, and with a successful status stdout is returned;
\* status_ok is Ok iff the status is success and otherwise an error naming
\* the sandbox and the argv.
C7_CheckedSplit ==
    /\ (last.op = "stdout" /\ last.ans.spawned) =>
          /\ last.out.res = "Err" <=> ~Success(last.ans.code)
          /\ last.out.res = "Err" => NamesSandboxAndArgv
    /\ (last.op = "status_ok" /\ last.ans.spawned) =>
          /\ last.out.res = "Ok" <=> Success(last.ans.code)
          /\ last.out.res = "Err" => NamesSandboxAndArgv

\* C7 as amended: when the command ran and its output is UTF-8, stdout
\* returns an error naming the sandbox and the argv iff the status is not
\* success and otherwise only the trimmed stdout; a command that cannot be
\* started or an output that is not UTF-8 is an error too, the io or
\* encoding error, which does not name the sandbox.  status_ok, when the
\* command could be started, is Ok iff the status is success and otherwise
\* an error naming the sandbox and the argv; a command that cannot be
\* started is the io error.
C7_CheckedSplitAmended ==
    /\ last.op = "stdout" =>
          /\ (RanWithText /\ ~Success(last.ans.code)) =>
                (last.out.res = "Err" /\ NamesSandboxAndArgv)
          /\ (RanWithText /\ Success(last.ans.code)) =>
                /\ last.out.res = "Ok"
                /\ IsTrimOf(last.out.stdout, last.ans.stdout)
                /\ last.out.stderr = <<>> /\ last.out.status = -1
          /\ ~RanWithText =>
                (last.out.res = "Err" /\ ~Names(last.out.msg, inner.name))
    /\ last.op = "status_ok" =>
          /\ (last.ans.spawned /\ Success(last.ans.code)) => last.out.res = "Ok"
          /\ (last.ans.spawned /\ ~Success(last.ans.code)) =>
                (last.out.res = "Err" /\ NamesSandboxAndArgv)
          /\ ~last.ans.spawned =>
                (last.out.res = "Err" /\ ~Names(last.out.msg, inner.name))

\* stdout was called on a command that ran and exited with failure
C7_Witness ==
    /\ last.op = "stdout"
    /\ RanWithText /\ last.ans.code = 1 /\ last.ans.stdout = <<Ch, LF>>
    /\ last.out.res = "Err"
    /\ NamesSandboxAndArgv

\* C8: output and status return Ok with the exit status as reported, success
\* or not, whenever the command could be started (and, for output, its
\* streams are UTF-8); they return an error only otherwise.
C8_UncheckedKeepStatus ==
    /\ last.op = "output" =>
          /\ last.out.res = "Ok" <=> RanWithText
          /\ last.out.res = "Ok" => last.out.status = last.ans.code
    /\ last.op = "status" =>
          /\ last.out.res = "Ok" <=> last.ans.spawned
          /\ last.out.res = "Ok" => last.out.status = last.ans.code

\* output was called on a command that exited with failure and returned Ok
\* with that status
C8_Witness ==
    /\ last.op = "output"
    /\ last.ans.spawned /\ last.ans.code = 1
    /\ last.out.res = "Ok" /\ last.out.status = 1

\* ---------------------------------------------------------------------------
\* Teardown and release (Drop for Inner, Drop for Child)

\* C11 as stated: teardown is fire-and-forget: while the removal command of a
\* sandbox is running, the thread that released the last handle is not
\* blocked waiting for it
C11_TeardownDoesNotBlock ==
    \A s \in Sandboxes : rmcmd[s] = "running" => teardown[s] # "blocked"

\* ---------------------------------------------------------------------------
\* Naming and the steps of Container::run

\* the threads that took a value of the counter
Named == {t \in Threads : count[t] # -1}

\* C12: under every interleaving of concurrent creators no two sandboxes of
\* the process get the same counter value or the same name, and the values
\* handed out after k creations reached naming are exactly 0..k-1.
C12_NamesCollisionFree ==
    /\ COUNT = Cardinality(Named)
    /\ {count[t] : t \in Named} = 0 .. (COUNT - 1)
    /\ \A t, u \in Named : t # u => count[t] # count[u] /\ name(t) # name(u)

\* every thread took its value, and two of them create the same profile
C12_Witness ==
    /\ Named = Threads
    /\ \E t, u \in Threads : t # u /\ prof[t] = prof[u] /\ name(t) # name(u)

\* what holds of a create in every state: no address query without a
\* successful launch, no handle and no Inner after an error, a handle only
\* after one successful launch and one successful address query
C13_Steps ==
    \A t \in Threads :
        /\ inspects[t] > 0 => started[t]
        /\ pc[t] = "err" => /\ ~container[t] /\ strong[t] = 0
                            /\ launches[t] = 1 /\ inspects[t] <= 1
        /\ container[t] => /\ pc[t] = "done" /\ started[t]
                           /\ launches[t] = 1 /\ inspects[t] = 1

\* C13: creation stops at the first failing step and returns no handle: after
\* a failed launch no address query is issued, after a failed identifier
\* decoding or address resolution no Inner is assembled, after the error no
\* further command is issued, and a handle exists only when launch,
\* identifier parsing and address resolution all succeeded.
C13_StopsAtFirstFailure ==
    /\ []C13_Steps
    /\ [][\A t \in Threads : pc[t] = "err" =>
             /\ launches'[t] = launches[t] /\ inspects'[t] = inspects[t]
             /\ ~container'[t] /\ strong'[t] = 0 /\ pc'[t] = "err"]_vars

\* one create failed at the launch, another at the address resolution
C13_Witness ==
    \E t, u \in Threads :
        /\ pc[t] = "err" /\ ~started[t] /\ inspects[t] = 0
        /\ pc[u] = "err" /\ started[u] /\ inspects[u] = 1 /\ ~container[u]

\* ---------------------------------------------------------------------------
\* Inner and the operations of a Container

\* C14: no operation on a sandbox (cp, output, stdout, status, status_ok,
\* spawn, wait, drops) changes the identifier, name or address of its Inner
\* or queries the engine for the address again, and every call of ipv4_addr
\* returns the address stored at creation without issuing a command.
C14_InnerImmutable ==
    [][/\ inner' = inner
       /\ inspects' = inspects
       /\ last'.op = "ipv4_addr" => addr' = inner.ipv4_addr /\ issued' = <<>>]_vars

\* ipv4_addr was called after a file was copied in and a Child was waited on
C14_Witness ==
    /\ last.op = "ipv4_addr" /\ addr = Inner0.ipv4_addr /\ inner = Inner0
    /\ files.present
    /\ \E c \in Children : child[c].st = "waited"

\* b does not end in '\n' or '\r'
Clean(b) == Len(b) = 0 \/ b[Len(b)] \notin {LF, CR}
\* t is the longest prefix of c that does not end in '\n' or '\r'
IsLongestCleanPrefix(t, c) ==
    \E k \in 0..Len(c) :
        /\ t = SubSeq(c, 1, k) /\ Clean(t)
        /\ \A j \in (k + 1)..Len(c) : ~Clean(SubSeq(c, 1, j))

\* C15: the Output made from a raw process output has, for stdout and for
\* stderr, the longest prefix of the raw stream that does not end in a
\* newline or carriage return (converting it again changes nothing), and
\* the exit status of the raw output.
C15_TrailingEolStripped ==
    (last.op = "output" /\ last.out.res = "Ok") =>
        /\ IsLongestCleanPrefix(last.out.stdout, last.ans.stdout)
        /\ IsLongestCleanPrefix(last.out.stderr, last.ans.stderr)
        /\ IsLongestCleanPrefix(last.out.stdout, last.out.stdout)
        /\ IsLongestCleanPrefix(last.out.stderr, last.out.stderr)
        /\ last.out.status = last.ans.code

\* an output whose stderr lost two trailing characters, whose stdout kept its
\* leading newline, and whose exit status is not success
C15_Witness ==
    /\ last.op = "output" /\ last.out.res = "Ok"
    /\ last.ans.stderr = <<Ch, LF, CR>> /\ last.out.stderr = <<Ch>>
    /\ last.ans.stdout = <<LF, Ch>> /\ last.out.stdout = <<LF, Ch>>
    /\ last.ans.code = 1 /\ last.out.status = 1

\* C16: cp issues its commands in a fixed order and each at most once: the
\* copy first, the chmod only after the copy returned with success, nothing
\* after a step that failed, and it returns Ok only if both succeeded.
C16_CopyThenChmod ==
    last.op = "cp" =>
        LET copied == last.tmp /\ last.ans.spawned /\ Success(last.ans.code)
            chmodded == last.ans2.spawned /\ Success(last.ans2.code) IN
        /\ issued \in {<<>>, <<DockerCp(inner)>>, <<DockerCp(inner), DockerExec(inner, Chmod)>>}
        /\ Len(issued) = 2 <=> copied
        /\ Len(issued) >= 1 <=> last.tmp
        /\ last.out.res = "Ok" => copied /\ chmodded /\ Len(issued) = 2

\* a cp whose copy failed and that stopped there
C16_Witness ==
    /\ last.op = "cp" /\ last.out.res = "Err"
    /\ last.tmp /\ last.ans.spawned /\ ~Success(last.ans.code)
    /\ issued = <<DockerCp(inner)>>

\* ---------------------------------------------------------------------------
\* Order of kill, wait and removal

\* C17 as stated: at the step that issues the removal request of a sandbox,
\* every process spawned in it has been killed or has completed: the drop of
\* an abandoned last Child kills before the removal, and the wait of a last
\* Child ends in the removal only after the process has exited.
C17_ProcessEndsBeforeRemoval ==
    [][\A c \in Children :
          (child[c].st # "unspawned" /\ rm'[child[c].sb] > rm[child[c].sb])
              => proc'[c] \in {"killed", "exited"}]_vars

\* C18 as stated: a sandbox whose launch succeeded is never left, once run has
\* returned, with neither a handle referencing it nor a removal request,
\* also when run returned an error after the launch.
C18_LaunchedIsRemoved ==
    \A t \in Threads :
        (started[t] /\ pc[t] \in {"done", "err"}) => (Handles(t) > 0 \/ rm[t] > 0)

\* ---------------------------------------------------------------------------
\* What failing operations print, and failures at release

\* the last operation failed because a command it ran exited without success
ExitFailure ==
    /\ last.out.res = "Err"
    /\ \/ /\ last.op \in {"stdout", "status_ok"}
          /\ last.ans.spawned /\ ~Success(last.ans.code)
          /\ Utf8(last.ans.stdout) /\ Utf8(last.ans.stderr)
       \/ /\ last.op = "cp" /\ last.tmp /\ last.ans.spawned
          /\ \/ ~Success(last.ans.code)
             \/ last.ans2.spawned /\ ~Success(last.ans2.code)

\* C19 as stated: every checked operation (stdout, status_ok, the two steps
\* of cp) that fails on the exit status of its command prints the captured
\* stdout and stderr before it returns the error.
C19_FailurePrinted ==
    ExitFailure => last.out.diag # <<>>

\* C19 as amended: of the checked operations only stdout prints: on an
\* unsuccessful exit it prints the trimmed stdout and stderr it captured and
\* then returns the error; status_ok and the two steps of cp return the
\* error and print nothing.
C19_OnlyStdoutPrints ==
    /\ (ExitFailure /\ last.op = "stdout") =>
            /\ Len(last.out.diag) = 2
            /\ IsLongestCleanPrefix(last.out.diag[1], last.ans.stdout)
            /\ IsLongestCleanPrefix(last.out.diag[2], last.ans.stderr)
    /\ (ExitFailure /\ last.op \in {"status_ok", "cp"}) => last.out.diag = <<>>
    /\ last.out.diag # <<>> => ExitFailure /\ last.op = "stdout"

\* stdout of `cat` on a missing file failed and printed what cat wrote
C19_Witness ==
    /\ last.op = "stdout" /\ ExitFailure
    /\ last.ans.stderr = <<Ch>>
    /\ last.out.diag = <<<<>>, <<Ch>>>>

\* C20: failures at release are swallowed and the release goes on: when no
\* handle references a sandbox its removal has been requested once, whatever
\* kill returned to the dropped Children; the drop of Inner has returned
\* whether the removal command succeeded, failed or could not be started;
\* and a Child whose kill failed is dropped and has released its reference.
C20_ReleaseFailuresSwallowed ==
    /\ \A s \in Sandboxes :
          /\ Handles(s) = 0 => rm[s] = 1
          /\ rmcmd[s] \in {"ok", "failed", "unstarted"} => teardown[s] = "returned"
          /\ rm[s] = 1 => rmcmd[s] # "none"
    /\ \A c \in Children :
          killres[c] = "err" =>
              /\ child[c].st = "dropped" /\ child[c].inner = "None"
              /\ strong[child[c].sb] = Handles(child[c].sb)

\* the kill of the last Child of a sandbox failed, the removal was requested
\* all the same, its command failed too and the drop returned
C20_Witness ==
    \E c \in Children :
        /\ killres[c] = "err" /\ child[c].st = "dropped"
        /\ Handles(child[c].sb) = 0 /\ rm[child[c].sb] = 1
        /\ rmcmd[child[c].sb] = "failed" /\ teardown[child[c].sb] = "returned"

=============================================================================
